---- MODULE Spec2Model ----
(***************************************************************************)
(* Model of the Streamlit to-do application in src/app.py: the SQLite      *)
(* backed item store (create_todo_db, update_todo_db, delete_todo_db), the *)
(* Gemini translation call (translate_text_gemini), the per-session        *)
(* translation cache (st.session_state.translations) and the button and    *)
(* form handlers of the page script.                                       *)
(*                                                                         *)
(* Two specifications are given.  Spec is the application: one browser     *)
(* session whose only steps are the handlers the page renders.  SpecStore  *)
(* is the store's function interface called with arbitrary arguments (an   *)
(* id that may be absent, any partial update), which is what the store's   *)
(* contract speaks of and what the page alone never does.                  *)
(*                                                                         *)
(* Python str values that are stored in a row are TLA+ strings; the text   *)
(* assembled for translation is a sequence of string pieces (concatenation *)
(* is \o), so the empty str there is << >>.  Python None is NULL.          *)
(***************************************************************************)
EXTENDS Integers, Sequences, FiniteSets, TLC

VARIABLES
    store,          \* rows of table "todoitem": a set of TodoItem records
    translations,   \* st.session_state.translations: id -> (language -> text)
    gemini_model,   \* module global gemini_model: "None" or "model"
    last,           \* history: the handler or store call that ran last
    created,        \* history: the ids returned by create_todo_db, in order
    serial,         \* history: id of a stored row -> index of its create
    origin          \* history: id -> (language -> serial of the row translated)

vars == <<store, translations, gemini_model, last, created, serial, origin>>

----------------------------------------------------------------------------
(* Bounds and input sets                                                   *)

\* number of create_todo_db calls in one behaviour
MaxCreates == 2

NULL == "<None>"

\* submissions of the add form: <<title, description, priority, due date>>.
\* st.text_input and st.text_area give "" when left empty, the selectbox
\* one of its four options, st.date_input(value=None) a date or None
AddForms == {<<"", "2l", "Low", NULL>>,
             <<"milk", "", "None", NULL>>,
             <<"eggs", "2l", "High", "2026-11-05">>}

\* a subset of the ten names of LANGUAGES
LanguageNames == {"Spanish", "Hindi"}

\* what gemini_model.generate_content can do: raise, answer with empty
\* text, or answer with a text
Outcomes == {"raise", "empty", "text"}

Fields == {"title", "description", "completed", "priority", "due_date"}

Restrict(f, S) == [x \in S |-> f[x]]

----------------------------------------------------------------------------
(* Model classes                                                           *)

\* LANGUAGES[selected_language_name]
LANGUAGES(name) == name

\* TodoItemCreate(title=, description=, priority=, due_date=)
TodoItemCreate(title, description, priority, due_date) ==
    [title |-> title, description |-> description,
     priority |-> priority, due_date |-> due_date]

\* A TodoItemUpdate is the pydantic object: every field has a value (None
\* by default) and fields_set names the fields the caller passed.
TodoItemUpdate(given) ==
    [fields_set |-> DOMAIN given,
     values |-> [f \in Fields |-> IF f \in DOMAIN given THEN given[f] ELSE NULL]]

\* todo_update.model_dump(exclude_unset=True)
model_dump_exclude_unset(todo_update) ==
    Restrict(todo_update.values, todo_update.fields_set)

\* variant of TodoItem_model_validate: the class default of completed is True
Mut_model_validate(todo_create) ==
    [title |-> todo_create.title, description |-> todo_create.description,
     completed |-> TRUE,
     priority |-> todo_create.priority, due_date |-> todo_create.due_date]

\* TodoItem.model_validate(todo_create): the row before it has an id;
\* completed takes the class default
TodoItem_model_validate(todo_create) ==
    [title |-> todo_create.title, description |-> todo_create.description,
     completed |-> FALSE,
     priority |-> todo_create.priority, due_date |-> todo_create.due_date]

----------------------------------------------------------------------------
(* Item store                                                              *)

Ids(s) == {t.id : t \in s}

\* session.get(TodoItem, todo_id), for an id that is present
Get(s, todo_id) == CHOOSE t \in s : t.id = todo_id

\* get_all_todos_db and the partition the page makes of it
get_all_todos_db(s) == s
incomplete_todos(s) == {t \in get_all_todos_db(s) : ~t.completed}
completed_todos(s) == {t \in get_all_todos_db(s) : t.completed}

\* The id SQLite gives an inserted row whose id is None.  The column is
\* INTEGER PRIMARY KEY without AUTOINCREMENT, that is the rowid: one more
\* than the largest rowid now in the table, 1 for an empty table.
NextRowId(s) ==
    IF s = {} THEN 1
    ELSE (CHOOSE m \in Ids(s) : \A i \in Ids(s) : i <= m) + 1

\* create_todo_db: [store |-> the table afterwards, ret |-> the row returned]
create_todo_db(s, todo_create) ==
    LET v == TodoItem_model_validate(todo_create)
        db_todo == [id |-> NextRowId(s), title |-> v.title,
                    description |-> v.description, completed |-> v.completed,
                    priority |-> v.priority, due_date |-> v.due_date]
    IN [store |-> s \cup {db_todo}, ret |-> db_todo]

\* variant of sqlmodel_update: a replace, fields not named fall back to the
\* class defaults
Mut_sqlmodel_update(todo, update_data) ==
    [id |-> todo.id,
     title |-> IF "title" \in DOMAIN update_data
               THEN update_data["title"] ELSE todo.title,
     description |-> IF "description" \in DOMAIN update_data
                     THEN update_data["description"] ELSE NULL,
     completed |-> IF "completed" \in DOMAIN update_data
                   THEN update_data["completed"] ELSE FALSE,
     priority |-> IF "priority" \in DOMAIN update_data
                  THEN update_data["priority"] ELSE NULL,
     due_date |-> IF "due_date" \in DOMAIN update_data
                  THEN update_data["due_date"] ELSE NULL]

\* todo.sqlmodel_update(update_data): set the attributes update_data names
sqlmodel_update(todo, update_data) ==
    [f \in DOMAIN todo |->
        IF f \in DOMAIN update_data THEN update_data[f] ELSE todo[f]]

\* update_todo_db: found is FALSE when the function returns None
update_todo_db(s, todo_id, todo_update) ==
    IF todo_id \notin Ids(s)
    THEN [store |-> s, found |-> FALSE]
    ELSE LET todo == Get(s, todo_id)
             update_data == model_dump_exclude_unset(todo_update)
         IN [store |-> (s \ {todo}) \cup {sqlmodel_update(todo, update_data)},
             found |-> TRUE]

\* variant of delete_todo_db: reports True for an absent id as well
Mut_delete_todo_db(s, todo_id) ==
    IF todo_id \notin Ids(s)
    THEN [store |-> s, ret |-> TRUE]
    ELSE [store |-> s \ {Get(s, todo_id)}, ret |-> TRUE]

\* delete_todo_db: ret is the bool returned
delete_todo_db(s, todo_id) ==
    IF todo_id \notin Ids(s)
    THEN [store |-> s, ret |-> FALSE]
    ELSE [store |-> s \ {Get(s, todo_id)}, ret |-> TRUE]

----------------------------------------------------------------------------
(* Translation client                                                      *)

\* response.text for a prompt: empty, or a text written for that prompt
response_text(prompt, outcome) ==
    IF outcome = "empty" THEN << >> ELSE <<outcome, ": ">> \o prompt

\* variant of translate_text_gemini: no test of gemini_model before the call
Mut_translate_text_gemini(text, target_language, outcome) ==
    LET prompt == <<"Translate the following text into ", target_language, ": ">>
                      \o text
    IN IF outcome = "raise"
       THEN [kind |-> "None", text |-> << >>, called |-> TRUE]
       ELSE [kind |-> "str", text |-> response_text(prompt, outcome),
             called |-> TRUE]

\* translate_text_gemini: kind is "None" or "str" (then text is the str
\* returned); called tells whether generate_content was invoked
translate_text_gemini(text, target_language, outcome) ==
    IF gemini_model = "None"
    THEN [kind |-> "None", text |-> << >>, called |-> FALSE]
    ELSE LET prompt == <<"Translate the following text into ",
                         target_language, ": ">> \o text
         IN IF outcome = "raise"
            THEN [kind |-> "None", text |-> << >>, called |-> TRUE]
            ELSE [kind |-> "str", text |-> response_text(prompt, outcome),
                  called |-> TRUE]

\* the text the Translate handler assembles from a row
text_to_translate(todo) ==
    <<todo.title>>
    \o (IF todo.description \notin {NULL, ""}
        THEN <<" (Description: ", todo.description, ")">> ELSE << >>)
    \o (IF todo.priority \notin {NULL, ""}
        THEN <<" (Priority: ", todo.priority, ")">> ELSE << >>)
    \o (IF todo.due_date # NULL
        THEN <<" (Due Date: ", todo.due_date, ")">> ELSE << >>)

----------------------------------------------------------------------------
(* Session cache: a dict of dicts, modelled as a function of functions     *)

\* translations[todo_id][target_language] = translated_text, creating the
\* inner dict when the id has none
cache_put(tr, todo_id, target_language, value) ==
    LET inner == IF todo_id \in DOMAIN tr THEN tr[todo_id] ELSE << >>
        inner2 == [l \in DOMAIN inner \cup {target_language} |->
                      IF l = target_language THEN value ELSE inner[l]]
    IN [i \in DOMAIN tr \cup {todo_id} |-> IF i = todo_id THEN inner2 ELSE tr[i]]

\* variant of cache_evict: the entry is left in place
Mut_cache_evict(tr, todo_id) == tr

\* if todo.id in translations: del translations[todo.id]
cache_evict(tr, todo_id) == Restrict(tr, DOMAIN tr \ {todo_id})

\* variant of cache_store_result: the result is stored whatever it is
Mut_cache_store_result(tr, todo_id, target_language, result) ==
    cache_put(tr, todo_id, target_language, result.text)

\* the Translate handler's use of the result: stored only when truthy
cache_store_result(tr, todo_id, target_language, result) ==
    IF result.kind = "str" /\ result.text # << >>
    THEN cache_put(tr, todo_id, target_language, result.text)
    ELSE tr

\* the lookup the page makes before showing a translation
cache_has(tr, todo_id, target_language) ==
    todo_id \in DOMAIN tr /\ target_language \in DOMAIN tr[todo_id]

----------------------------------------------------------------------------
(* Page                                                                    *)

\* variant of title_given: the title is not tested
Mut_title_given(submitted_title) == TRUE

\* the add form's test of the submitted title
title_given(submitted_title) == submitted_title # ""

\* the buttons rendered for a row: four columns for a pending row, and for
\* a completed row a column that is left empty and the Delete column
Controls(todo) ==
    IF ~todo.completed THEN {"complete", "translate", "delete"} ELSE {"delete"}

NoCall == [op |-> "-", id |-> 0, lang |-> "-", title |-> "-", fields |-> {},
           ret |-> "-", called |-> FALSE, cached |-> {}]

Init ==
    /\ store = {}
    /\ translations = << >>
    /\ gemini_model \in {"None", "model"}
    /\ last = NoCall
    /\ created = << >>
    /\ serial = << >>
    /\ origin = << >>

\* bookkeeping of a successful create: the id returned, and which create
\* the row now carrying that id came from
NoteCreate(r) ==
    /\ created' = Append(created, r.ret.id)
    /\ serial' = [i \in DOMAIN serial \cup {r.ret.id} |->
                     IF i = r.ret.id THEN Len(created) + 1 ELSE serial[i]]

\* "Add To-Do" submitted
add_todo_form(new_title, new_description, new_priority, new_due_date) ==
    LET submitted_priority == IF new_priority # "None" THEN new_priority ELSE NULL
    IN IF title_given(new_title)
       THEN /\ Len(created) < MaxCreates
            /\ LET r == create_todo_db(store,
                            TodoItemCreate(new_title, new_description,
                                           submitted_priority, new_due_date))
               IN /\ store' = r.store
                  /\ NoteCreate(r)
                  /\ last' = [NoCall EXCEPT !.op = "add", !.title = new_title,
                                            !.id = r.ret.id, !.ret = "item"]
            /\ UNCHANGED <<translations, gemini_model, origin>>
       ELSE /\ last' = [NoCall EXCEPT !.op = "add", !.title = new_title,
                                      !.ret = "rejected"]
            /\ UNCHANGED <<store, translations, gemini_model, created,
                           serial, origin>>

\* "Mark Completed" on a pending row
MarkCompleted(todo) ==
    /\ "complete" \in Controls(todo)
    /\ LET r == update_todo_db(store, todo.id,
                               TodoItemUpdate([completed |-> TRUE]))
       IN /\ store' = r.store
          /\ last' = [NoCall EXCEPT !.op = "complete", !.id = todo.id,
                                    !.fields = {"completed"},
                                    !.ret = IF r.found THEN "item" ELSE "None"]
    /\ UNCHANGED <<translations, gemini_model, created, serial, origin>>

\* "Translate to <language>" on a row, with the language selected in the
\* sidebar
Translate(todo, selected_language_name, outcome) ==
    /\ "translate" \in Controls(todo)
    /\ LET target_language == LANGUAGES(selected_language_name)
           translated_text == translate_text_gemini(text_to_translate(todo),
                                                    target_language, outcome)
       IN /\ translations' = cache_store_result(translations, todo.id,
                                                target_language, translated_text)
          /\ origin' = IF translations' # translations
                          \/ (cache_has(translations', todo.id, target_language)
                              /\ translations'[todo.id][target_language]
                                    = translated_text.text)
                       THEN cache_put(origin, todo.id, target_language,
                                      serial[todo.id])
                       ELSE origin
          /\ last' = [NoCall EXCEPT !.op = "translate", !.id = todo.id,
                                    !.lang = target_language,
                                    !.ret = translated_text.kind,
                                    !.called = translated_text.called]
    /\ UNCHANGED <<store, gemini_model, created, serial>>

\* "Delete" on a row (the pending and the completed list have the same
\* handler)
DeleteHandler(todo) ==
    /\ "delete" \in Controls(todo)
    /\ LET r == delete_todo_db(store, todo.id)
       IN /\ store' = r.store
          /\ serial' = Restrict(serial, Ids(r.store))
          /\ last' = [NoCall EXCEPT !.op = "delete", !.id = todo.id,
                                    !.ret = IF r.ret THEN "True" ELSE "False",
                                    !.cached = IF todo.id \in DOMAIN translations
                                               THEN DOMAIN translations[todo.id]
                                               ELSE {}]
    /\ translations' = cache_evict(translations, todo.id)
    /\ origin' = Restrict(origin, DOMAIN translations')
    /\ UNCHANGED <<gemini_model, created>>

DeleteIncomplete(todo) == ~todo.completed /\ DeleteHandler(todo)

DeleteCompleted(todo) == todo.completed /\ DeleteHandler(todo)

\* a new browser session: session_state starts without 'translations'
NewSession ==
    /\ translations' = << >>
    /\ origin' = << >>
    /\ last' = [NoCall EXCEPT !.op = "session"]
    /\ UNCHANGED <<store, gemini_model, created, serial>>

Next ==
    \/ \E f \in AddForms : add_todo_form(f[1], f[2], f[3], f[4])
    \/ \E todo \in incomplete_todos(store) : MarkCompleted(todo)
    \/ \E todo \in get_all_todos_db(store), l \in LanguageNames, o \in Outcomes :
          Translate(todo, l, o)
    \/ \E todo \in incomplete_todos(store) : DeleteIncomplete(todo)
    \/ \E todo \in completed_todos(store) : DeleteCompleted(todo)
    \/ NewSession

Spec == Init /\ [][Next]_vars

----------------------------------------------------------------------------
(* The store's functions called directly                                   *)

\* ids a caller may pass: those the table can hold and one it cannot
CallIds == 1 .. (MaxCreates + 1)

\* update requests a caller may build: one field, several fields, and a
\* field explicitly set to None
UpdateRequest(k) ==
    CASE k = 1 -> TodoItemUpdate([completed |-> TRUE])
      [] k = 2 -> TodoItemUpdate([priority |-> "High", due_date |-> "2026-11-05"])
      [] OTHER -> TodoItemUpdate([description |-> NULL])

UpdateRequests == {1, 2, 3}

\* create_todo_db(TodoItemCreate(...)), with a title as the page passes one
StoreCreate(title, description, priority, due_date) ==
    /\ Len(created) < MaxCreates
    /\ LET r == create_todo_db(store,
                    TodoItemCreate(title, description, priority, due_date))
       IN /\ store' = r.store
          /\ NoteCreate(r)
          /\ last' = [NoCall EXCEPT !.op = "db_create", !.title = title,
                                    !.id = r.ret.id, !.ret = "item"]
    /\ UNCHANGED <<translations, gemini_model, origin>>

\* update_todo_db(todo_id, todo_update)
StoreUpdate(todo_id, todo_update) ==
    /\ LET r == update_todo_db(store, todo_id, todo_update)
       IN /\ store' = r.store
          /\ last' = [NoCall EXCEPT !.op = "db_update", !.id = todo_id,
                                    !.fields = todo_update.fields_set,
                                    !.ret = IF r.found THEN "item" ELSE "None"]
    /\ UNCHANGED <<translations, gemini_model, created, serial, origin>>

\* delete_todo_db(todo_id)
StoreDelete(todo_id) ==
    /\ LET r == delete_todo_db(store, todo_id)
       IN /\ store' = r.store
          /\ serial' = Restrict(serial, Ids(r.store))
          /\ last' = [NoCall EXCEPT !.op = "db_delete", !.id = todo_id,
                                    !.ret = IF r.ret THEN "True" ELSE "False"]
    /\ UNCHANGED <<translations, gemini_model, created, origin>>

NextStore ==
    \/ \E f \in {g \in AddForms : title_given(g[1])} :
          StoreCreate(f[1], f[2], IF f[3] # "None" THEN f[3] ELSE NULL, f[4])
    \/ \E i \in CallIds, k \in UpdateRequests : StoreUpdate(i, UpdateRequest(k))
    \/ \E i \in CallIds : StoreDelete(i)

SpecStore == Init /\ [][NextStore]_vars

----------------------------------------------------------------------------
(* Properties                                                              *)

Range(q) == {q[i] : i \in 1 .. Len(q)}

\* C1: the id returned by each successful create differs from the id of
\* every item created earlier in the store, deleted ones included: no id
\* is returned twice.
C1_IdNeverReused ==
    \A i, j \in 1 .. Len(created) : i # j => created[i] # created[j]

\* C2: submitting the add form with an empty title is rejected and leaves
\* the set of stored rows as it was.
C2_EmptyTitleRejected ==
    [][(last'.op = "add" /\ last'.title = "")
         => (last'.ret = "rejected" /\ store' = store)]_vars

C2_Witness ==
    /\ last.op = "add" /\ last.title = "" /\ last.ret = "rejected"
    /\ store # {}

\* C3: an update of an existing row changes only the fields the request
\* names; with {completed: true} the id, title, description, priority and
\* due_date stay as they were, and every other row is untouched.
C3_UpdateMerges ==
    [][(last'.op = "db_update" /\ last'.ret = "item")
         => /\ last'.id \in Ids(store)
            /\ last'.id \in Ids(store')
            /\ LET old == Get(store, last'.id)
                   new == Get(store', last'.id)
               IN /\ new.id = old.id
                  /\ \A f \in Fields \ last'.fields : new[f] = old[f]
                  /\ store' \ {new} = store \ {old}
                  /\ Cardinality(store') = Cardinality(store)]_vars

C3_Witness ==
    /\ last.op = "db_update" /\ last.ret = "item"
    /\ last.fields = {"completed"}
    /\ Cardinality(store) = 2
    /\ LET t == Get(store, last.id)
       IN /\ t.completed
          /\ t.title = "eggs" /\ t.description = "2l"
          /\ t.priority = "High" /\ t.due_date = "2026-11-05"

\* C4: delete of an id that is not stored returns False and leaves the
\* rows unchanged; delete of a stored id returns True and removes that
\* row; so a second delete of the same id right after the first returns
\* False and changes nothing.
C4_DeleteMissing ==
    [][last'.op = "db_delete"
         => /\ last'.id \notin Ids(store)
                 => (last'.ret = "False" /\ store' = store)
            /\ last'.id \in Ids(store)
                 => /\ last'.ret = "True"
                    /\ store' = store \ {Get(store, last'.id)}
                    /\ last'.id \notin Ids(store')
            /\ (last.op = "db_delete" /\ last.id = last'.id)
                 => (last'.ret = "False" /\ store' = store)]_vars

C4_Witness ==
    /\ last.op = "db_delete" /\ last.ret = "False"
    /\ last.id \in Range(created)
    /\ last.id \notin Ids(store)
    /\ store # {}

\* C5: after the Delete handler ran on a row, the session cache has no
\* entry for that row's id in any language.
C5_DeleteEvicts ==
    last.op = "delete"
        => \A l \in LanguageNames :
              ~cache_has(translations, last.id, LANGUAGES(l))

C5_Witness ==
    /\ last.op = "delete" /\ last.ret = "True"
    /\ last.cached = {LANGUAGES(l) : l \in LanguageNames}
    /\ translations # << >>

\* C6: a row is created pending; its completed flag changes only from
\* false to true and only by Mark Completed on it; it leaves the store
\* only by Delete on it.
C6_Lifecycle ==
    [][/\ \A i \in Ids(store) \cap Ids(store') :
             LET old == Get(store, i)
                 new == Get(store', i)
             IN /\ serial'[i] = serial[i]
                /\ old.completed => new.completed
                /\ old.completed # new.completed
                      => (last'.op = "complete" /\ last'.id = i)
       /\ \A i \in Ids(store') \ Ids(store) :
             ~Get(store', i).completed /\ last'.op = "add" /\ last'.id = i
       /\ \A i \in Ids(store) \ Ids(store') :
             last'.op = "delete" /\ last'.id = i]_vars

C6_Witness ==
    /\ last.op = "add" /\ last.ret = "item"
    /\ \E t \in store : t.completed /\ t.id # last.id

\* C7: for a pending row and for a completed row alike the Translate
\* action is enabled (Translate itself leaves store, hence every completed
\* flag, unchanged).
C7_TranslateInBothStates ==
    \A t \in store : \E l \in LanguageNames, o \in Outcomes :
        ENABLED Translate(t, l, o)

\* C8: with no model configured, translate returns None without calling
\* the service, and the session cache stays as it was.
C8_UnavailableNoCall ==
    [][(last'.op = "translate" /\ gemini_model = "None")
         => /\ last'.ret = "None"
            /\ ~last'.called
            /\ translations' = translations]_vars

C8_Witness ==
    /\ gemini_model = "None"
    /\ last.op = "translate" /\ last.ret = "None" /\ ~last.called
    /\ store # {}

\* C9: a translate whose call to the service raised leaves every stored
\* row and the session cache unchanged.
C9_FailedCallNoEffect ==
    [][(last'.op = "translate" /\ last'.called /\ last'.ret = "None")
         => (store' = store /\ translations' = translations)]_vars

C9_Witness ==
    /\ last.op = "translate" /\ last.called /\ last.ret = "None"
    /\ cache_has(translations, last.id, last.lang)

\* C10: every id with an entry in the session cache is the id of a stored
\* row, and each cached text was made from that very row, not from an
\* earlier row that carried the same id.
C10_CacheMatchesStore ==
    \A i \in DOMAIN translations :
        /\ i \in Ids(store)
        /\ \A l \in DOMAIN translations[i] : origin[i][l] = serial[i]

C10_Witness ==
    /\ \E i \in DOMAIN translations :
          /\ serial[i] = Len(created)
          /\ \E k \in 1 .. (Len(created) - 1) : created[k] = i

====
